---------------------------- MODULE Spec2Model ----------------------------
(***************************************************************************)
(* JARVIS 8.0 ULTRA: the adaptive assessment and retention engine.         *)
(*                                                                         *)
(*   src/src/lib/irt.ts      3PL item response theory (theta updates,      *)
(*                           Fisher information, CAT stopping rule)        *)
(*   src/src/app/page.tsx    SM-2 spaced repetition (lines 990-1339)       *)
(*   src/unnamed/part_001    the study-session endpoint (PUT = submit an   *)
(*                           answer, a read-modify-write of the theta)     *)
(*                                                                         *)
(* Numbers.  The code computes in IEEE doubles; the model computes in      *)
(* fixed point.  Abilities, item parameters, information and standard      *)
(* errors are integers counting 1/Unit (1e-4); probabilities count 1/Hi    *)
(* (1e-8).  Ease factors count 1/Cent (0.01), which is exact for SM-2:     *)
(* every ease update is a multiple of 0.02.  Time counts Ticks, with       *)
(* TicksPerDay ticks in a calendar day.                                    *)
(***************************************************************************)
EXTENDS Integers, Sequences, FiniteSets, TLC

VARIABLES
    \* --- an adaptive (CAT) session over irt.ts ---
    estimate,       \* the session's current ability estimate (theta)
    administered,   \* the IRTParameters of the items answered so far
    maxQuestions,   \* the session's question limit
    targetSE,       \* the precision target handed to shouldStopCAT
    lastUpdate,     \* the last updateTheta call: its item, answer and IRTResult
    verdict,        \* the last shouldStopCAT result
    \* --- review cards scheduled by the SM-2 engine of page.tsx ---
    items,          \* the learner's ReviewItems
    now,            \* the clock (new Date()), in ticks
    reviews,        \* the number of reviews made so far
    lastReview,     \* the last calculateNextReview call: card, quality, SM2Result
    startCard,      \* the SM2Parameters the card had when the run began
    perfectRun,     \* per card: its reviews so far if it began as a new card and
                    \* every one was rated 5, else -1
    \* --- the study-session endpoint (part_001) over the database ---
    users,          \* db.user: the thetas and counters of each learner
    questions,      \* db.question: the statistics of each question
    sessions,       \* db.session: the counters of each study session
    responses,      \* db.questionResponse: the stored answers, in creation order
    reqs,           \* the requests in flight: position, body and locals of each
    \* --- item selection (selectOptimalQuestion of irt.ts) ---
    ability,        \* the theta handed to the selection
    bank,           \* the candidate questions (QuestionIRT), in list order
    answeredIds,    \* the ids of the questions already answered
    lastSelect,     \* the last selection: its random factors and its result
    \* --- evaluations of the engine's pure functions at chosen points ---
    probe,          \* an item, a theta, and the values computed there
    \* --- DistractionMonitor (part_003) and the device it watches ---
    isRunning,              \* DistractionMonitor.isRunning
    distractionStartTime,   \* DistractionMonitor.distractionStartTime, or NoTime
    lastDistraction,        \* DistractionMonitor.lastDistraction, or NoEvent
    check,          \* the checkForegroundApp call in flight, if any
    clock,          \* the device's time in seconds (new Date())
    foreground,     \* the package in the foreground
    episode,        \* of the present stay of the foreground app: was a warning issued
    lastStop        \* the last forceStopApp call, and what held when it was made

irtVars == <<estimate, administered, maxQuestions, targetSE, lastUpdate, verdict>>
sm2Vars == <<items, now, reviews, lastReview, perfectRun, startCard>>
dbVars == <<users, questions, sessions, responses>>
putVars == <<dbVars, reqs>>
selVars == <<ability, bank, answeredIds, lastSelect>>
probeVars == <<probe>>
monVars == <<isRunning, distractionStartTime, lastDistraction, check, clock, foreground,
             episode, lastStop>>
vars == <<irtVars, sm2Vars, putVars, selVars, probeVars, monVars>>

Unit == 10^4
Hi   == Unit * Unit
Cent == 10 * 10

(***************************************************************************)
(* Fixed-point arithmetic inside 32-bit integers.                          *)
(***************************************************************************)
Min(x, y) == IF x <= y THEN x ELSE y
Max(x, y) == IF x >= y THEN x ELSE y

\* Quotient rounded toward zero (d > 0), as a double quotient is symmetric in sign.
TDiv(n, d) == IF n >= 0 THEN n \div d ELSE -((-n) \div d)

\* floor(x * y / Hi) for 0 <= x <= 2 * Hi and 0 <= y <= Hi, by halves of Unit.
MulHi(x, y) ==
    LET xh == x \div Unit
        xl == x % Unit
        yh == y \div Unit
        yl == y % Unit
    IN  xh * yh + ((xh * yl + xl * yh) + (xl * yl) \div Unit) \div Unit

\* Largest information value the model represents (20000.0); larger quotients
\* saturate here.  A theta step computed from it is below 1/Unit.
InfoCap == 2 * Hi

RECURSIVE LongDiv(_, _, _, _)
LongDiv(q, r, d, k) ==
    IF k = 0 THEN q
    ELSE IF q > InfoCap \div 10 THEN InfoCap
    ELSE LongDiv(q * 10 + (r * 10) \div d, (r * 10) % d, d, k - 1)

\* floor(n * 10^k / d) for n >= 0 and 0 < d <= 2 * Hi, saturating at InfoCap.
SatDiv(n, d, k) == Min(InfoCap, LongDiv(n \div d, n % d, d, k))

RECURSIVE SqrtSearch(_, _, _)
SqrtSearch(n, lo, hi) ==
    IF lo >= hi THEN lo
    ELSE LET mid == (lo + hi + 1) \div 2
         IN  IF mid * mid <= n THEN SqrtSearch(n, mid, hi)
             ELSE SqrtSearch(n, lo, mid - 1)

\* floor(sqrt(n)) for 0 <= n < 2^31.
Isqrt(n) == SqrtSearch(n, 0, 46340)

(***************************************************************************)
(* Math.exp.  ExpNeg(y) is e^(-y) in 1/Hi for y >= 0 in 1/Unit: the        *)
(* argument is split into quarters and a remainder below 1/4, e^(-n/4)     *)
(* is a power of e^(-1/4) and e^(-r) a Taylor polynomial in Horner form.   *)
(***************************************************************************)
ExpQuarter == 77880078

RECURSIVE PowQuarter(_)
PowQuarter(n) ==
    IF n = 0 THEN Hi
    ELSE IF n % 2 = 0
         THEN LET h == PowQuarter(n \div 2) IN MulHi(h, h)
         ELSE MulHi(ExpQuarter, PowQuarter(n - 1))

RECURSIVE ExpSeries(_, _)
ExpSeries(r, k) ==
    IF k > 6 THEN Hi ELSE Hi - MulHi(r \div k, ExpSeries(r, k + 1))

ExpNeg(y) ==
    LET quarter == Unit \div 4
    IN  MulHi(PowQuarter(y \div quarter), ExpSeries((y % quarter) * Unit, 1))

(***************************************************************************)
(* irt.ts                                                                  *)
(***************************************************************************)
THETA_MIN == -3 * Unit
THETA_MAX == 3 * Unit
DISCRIMINATION_MIN == Unit \div 2
DISCRIMINATION_MAX == (5 * Unit) \div 2
GUESSING_DEFAULT == Unit \div 4
GUESSING_MAX == Unit \div 2

clamp(value, min, max) == Max(min, Min(max, value))

\* An item's IRTParameters, in 1/Unit.
Params(b, a, c) == [difficulty |-> b, discrimination |-> a, guessing |-> c]

\* (1 - c) / (1 + Math.exp(exponent)) in 1/Hi.  For a positive exponent the
\* quotient is taken as (1 - c) * e^(-x) / (e^(-x) + 1), which keeps the
\* exponential inside the fixed-point range.
LogisticTerm(exponent, c) ==
    LET omc == (Unit - c) * Unit
        u   == ExpNeg(IF exponent >= 0 THEN exponent ELSE -exponent)
    IN  IF exponent <= 0
        THEN SatDiv(omc, Hi + u, 8)
        ELSE SatDiv(MulHi(omc, u), Hi + u, 8)

\* The mutant of C17: the exponent taken as a * (t - b), without the minus.
probabilityCorrect_SignLost(theta, params) ==
    LET t == clamp(theta, THETA_MIN, THETA_MAX)
        b == clamp(params.difficulty, THETA_MIN, THETA_MAX)
        a == clamp(params.discrimination, DISCRIMINATION_MIN, DISCRIMINATION_MAX)
        c == clamp(params.guessing, 0, GUESSING_MAX)
        exponent == TDiv(a * (t - b), Unit)
    IN  c * Unit + LogisticTerm(exponent, c)

\* P(theta) of the 3PL model, in 1/Hi.
probabilityCorrect(theta, params) ==
    LET t == clamp(theta, THETA_MIN, THETA_MAX)
        b == clamp(params.difficulty, THETA_MIN, THETA_MAX)
        a == clamp(params.discrimination, DISCRIMINATION_MIN, DISCRIMINATION_MAX)
        c == clamp(params.guessing, 0, GUESSING_MAX)
        exponent == TDiv((-a) * (t - b), Unit)
    IN  c * Unit + LogisticTerm(exponent, c)

\* numerator / (P - c)^2 * (1 - c)^2 in 1/Unit.  The square of a small P - c
\* is below the resolution of 1/Hi, so the quotient by the square is taken as
\* two quotients by P - c (1e-5 resolution in between), saturating at InfoCap.
fisherInformation(theta, params) ==
    LET P == probabilityCorrect(theta, params)
        Q == Hi - P
        a == clamp(params.discrimination, DISCRIMINATION_MIN, DISCRIMINATION_MAX)
        c == clamp(params.guessing, 0, GUESSING_MAX)
        aa == (a * a) \div Unit
        PQ == MulHi(P, Q)
        numerator == (PQ \div Unit) * aa + ((PQ % Unit) * aa) \div Unit
        d == P - c * Unit
        omc == (Unit - c) * Unit
    IN  IF d = 0 THEN 0
        ELSE MulHi(SatDiv(SatDiv(numerator, d, 5), d, 7), MulHi(omc, omc))

\* information < 0.001
InfoThreshold == Unit \div 1000

\* The mutant of C4: the residual taken as expected - observed.
updateTheta_Reversed(currentTheta, params, isCorrect) ==
    LET thetaBefore == currentTheta
        P == probabilityCorrect(currentTheta, params)
        I == fisherInformation(currentTheta, params)
    IN  IF I < InfoThreshold
        THEN [thetaBefore |-> thetaBefore, thetaAfter |-> thetaBefore,
              thetaChange |-> 0, probabilityCorrect |-> P, information |-> I]
        ELSE LET observed == IF isCorrect THEN Hi ELSE 0
                 thetaChange == TDiv(P - observed, I)
                 adjustedChange == TDiv(thetaChange * 7, 10)
                 thetaAfter == clamp(thetaBefore + adjustedChange, THETA_MIN, THETA_MAX)
             IN  [thetaBefore |-> thetaBefore, thetaAfter |-> thetaAfter,
                  thetaChange |-> thetaAfter - thetaBefore,
                  probabilityCorrect |-> P, information |-> I]

\* The mutant of C19: the low-information return clamps theta as the normal
\* return does.
updateTheta_EarlyClamp(currentTheta, params, isCorrect) ==
    LET thetaBefore == currentTheta
        P == probabilityCorrect(currentTheta, params)
        I == fisherInformation(currentTheta, params)
    IN  IF I < InfoThreshold
        THEN LET thetaAfter == clamp(thetaBefore, THETA_MIN, THETA_MAX)
             IN  [thetaBefore |-> thetaBefore, thetaAfter |-> thetaAfter,
                  thetaChange |-> thetaAfter - thetaBefore,
                  probabilityCorrect |-> P, information |-> I]
        ELSE LET observed == IF isCorrect THEN Hi ELSE 0
                 thetaChange == TDiv(observed - P, I)
                 adjustedChange == TDiv(thetaChange * 7, 10)
                 thetaAfter == clamp(thetaBefore + adjustedChange, THETA_MIN, THETA_MAX)
             IN  [thetaBefore |-> thetaBefore, thetaAfter |-> thetaAfter,
                  thetaChange |-> thetaAfter - thetaBefore,
                  probabilityCorrect |-> P, information |-> I]

updateTheta(currentTheta, params, isCorrect) ==
    LET thetaBefore == currentTheta
        P == probabilityCorrect(currentTheta, params)
        I == fisherInformation(currentTheta, params)
    IN  IF I < InfoThreshold
        THEN [thetaBefore |-> thetaBefore, thetaAfter |-> thetaBefore,
              thetaChange |-> 0, probabilityCorrect |-> P, information |-> I]
        ELSE LET observed == IF isCorrect THEN Hi ELSE 0
                 thetaChange == TDiv(observed - P, I)
                 adjustedChange == TDiv(thetaChange * 7, 10)
                 thetaAfter == clamp(thetaBefore + adjustedChange, THETA_MIN, THETA_MAX)
             IN  [thetaBefore |-> thetaBefore, thetaAfter |-> thetaAfter,
                  thetaChange |-> thetaAfter - thetaBefore,
                  probabilityCorrect |-> P, information |-> I]


RECURSIVE totalInformation(_, _)
totalInformation(theta, questionParams) ==
    IF questionParams = <<>> THEN 0
    ELSE Min(9 * InfoCap,
             fisherInformation(theta, Head(questionParams))
               + totalInformation(theta, Tail(questionParams)))

\* SE(theta) = 1 / sqrt(total information), in 1/Unit; the square root of the
\* total (1/Unit) counts hundredths.
calculateStandardError(theta, questionParams) ==
    LET total == totalInformation(theta, questionParams)
    IN  IF total <= 0 THEN THETA_MAX - THETA_MIN
        ELSE (Unit * 100) \div Isqrt(total)

MIN_QUESTIONS == 5

\* The mutant of C13: the question limit tested with > in place of >=.
shouldStopCAT_OffByOne(theta, questionParams, maxQ, currentQuestionCount, tSE) ==
    LET se == calculateStandardError(theta, questionParams)
    IN  IF currentQuestionCount > maxQ
        THEN [stop |-> TRUE, reason |-> "Maximum questions reached", se |-> se]
        ELSE IF se < tSE
        THEN [stop |-> TRUE, reason |-> "Target precision achieved", se |-> se]
        ELSE IF currentQuestionCount < MIN_QUESTIONS
        THEN [stop |-> FALSE, reason |-> "Minimum questions not reached", se |-> se]
        ELSE [stop |-> FALSE, reason |-> "continuing", se |-> se]

shouldStopCAT(theta, questionParams, maxQ, currentQuestionCount, tSE) ==
    LET se == calculateStandardError(theta, questionParams)
    IN  IF currentQuestionCount >= maxQ
        THEN [stop |-> TRUE, reason |-> "Maximum questions reached", se |-> se]
        ELSE IF se < tSE
        THEN [stop |-> TRUE, reason |-> "Target precision achieved", se |-> se]
        ELSE IF currentQuestionCount < MIN_QUESTIONS
        THEN [stop |-> FALSE, reason |-> "Minimum questions not reached", se |-> se]
        ELSE [stop |-> FALSE, reason |-> "continuing", se |-> se]

(***************************************************************************)
(* The adaptive session: every answered question updates theta, joins the  *)
(* administered items and is followed by a consultation of shouldStopCAT   *)
(* with the number of questions answered so far.                           *)
(***************************************************************************)
MaxSession == 6

\* Abilities a caller may hand in, inside and outside [-3, 3].
ThetaInputs == {-5 * Unit, 0, 3 * Unit, 5 * Unit}

\* Item parameters (b, a, c): a medium item, an easy sharp one, and one whose
\* parameters lie outside the valid ranges.
ItemBank ==
    { Params(0, Unit, GUESSING_DEFAULT),
      Params(-3 * Unit, DISCRIMINATION_MAX, 0),
      Params(-4 * Unit, 3 * Unit, (6 * Unit) \div 10) }

\* The default target (0.3) and a looser one (0.5).
TargetSEs == {(3 * Unit) \div 10, Unit \div 2}

NoUpdate == [called |-> FALSE]

IRTStart ==
    /\ estimate \in ThetaInputs
    /\ administered = <<>>
    /\ maxQuestions \in {2, MaxSession}
    /\ targetSE \in TargetSEs
    /\ lastUpdate = NoUpdate
    /\ verdict = shouldStopCAT(estimate, <<>>, maxQuestions, 0, targetSE)

AnswerQuestion ==
    /\ ~verdict.stop
    /\ \E params \in ItemBank, isCorrect \in BOOLEAN :
         LET result == updateTheta(estimate, params, isCorrect)
             asked  == Append(administered, params)
         IN  /\ estimate' = result.thetaAfter
             /\ administered' = asked
             /\ lastUpdate' = [called |-> TRUE, theta |-> estimate, params |-> params,
                               isCorrect |-> isCorrect, result |-> result]
             /\ verdict' = shouldStopCAT(result.thetaAfter, asked, maxQuestions,
                                         Len(asked), targetSE)
    /\ UNCHANGED <<maxQuestions, targetSE>>
    /\ UNCHANGED <<sm2Vars, putVars, selVars, probeVars, monVars>>

\* The session is not in use: the engine functions hold no state of their own.
IRTIdle ==
    /\ estimate = 0
    /\ administered = <<>>
    /\ maxQuestions = 0
    /\ targetSE = 0
    /\ lastUpdate = NoUpdate
    /\ verdict = [stop |-> TRUE, reason |-> "idle", se |-> 0]


(***************************************************************************)
(* irt.ts: selectOptimalQuestion.  Math.random() is an input: the k-th     *)
(* call of a selection is the k-th member of randomFactors, in per cent.   *)
(***************************************************************************)
\* A QuestionIRT (subjectId and topicId play no part in the selection).
QuestionIRT(id, b, a, c) ==
    [id |-> id, difficulty |-> b, discrimination |-> a, guessing |-> c]

null == [id |-> "null"]

\* -Infinity: below every product of an information and a random factor.
NegInfinity == 0 - 1

\* 0.95 + Math.random() * 0.1, in per cent: the two ends and the middle.
RandomFactors == {95, 100, 105}

\* information * randomFactor, in 1/Unit.
Adjusted(information, randomFactor) ==
    (information \div 100) * randomFactor + ((information % 100) * randomFactor) \div 100

\* The for loop over availableQuestions, from its k-th member on.
RECURSIVE SelectLoop(_, _, _, _, _, _)
SelectLoop(currentTheta, availableQuestions, randomFactors, k, maxInformation, optimalQuestion) ==
    IF k > Len(availableQuestions) THEN optimalQuestion
    ELSE LET question == availableQuestions[k]
             params == Params(question.difficulty, question.discrimination,
                              GUESSING_DEFAULT)
             information == fisherInformation(currentTheta, params)
             adjustedInfo == Adjusted(information, randomFactors[k])
         IN  IF adjustedInfo > maxInformation
             THEN SelectLoop(currentTheta, availableQuestions, randomFactors, k + 1,
                             adjustedInfo, question)
             ELSE SelectLoop(currentTheta, availableQuestions, randomFactors, k + 1,
                             maxInformation, optimalQuestion)

\* The mutant of C30: each candidate is scored with its own guessing.
RECURSIVE SelectLoop_OwnGuessing(_, _, _, _, _, _)
SelectLoop_OwnGuessing(currentTheta, availableQuestions, randomFactors, k, maxInformation, optimalQuestion) ==
    IF k > Len(availableQuestions) THEN optimalQuestion
    ELSE LET question == availableQuestions[k]
             params == Params(question.difficulty, question.discrimination,
                              question.guessing)
             information == fisherInformation(currentTheta, params)
             adjustedInfo == Adjusted(information, randomFactors[k])
         IN  IF adjustedInfo > maxInformation
             THEN SelectLoop_OwnGuessing(currentTheta, availableQuestions, randomFactors,
                                         k + 1, adjustedInfo, question)
             ELSE SelectLoop_OwnGuessing(currentTheta, availableQuestions, randomFactors,
                                         k + 1, maxInformation, optimalQuestion)

selectOptimalQuestion_OwnGuessing(currentTheta, candidates, answeredQuestionIds, randomFactors) ==
    LET availableQuestions ==
            SelectSeq(candidates, LAMBDA q : q.id \notin answeredQuestionIds)
    IN  IF Len(availableQuestions) = 0 THEN null
        ELSE SelectLoop_OwnGuessing(currentTheta, availableQuestions, randomFactors, 1,
                                    NegInfinity, null)

\* The mutant of C11: the answered questions are not filtered out.
selectOptimalQuestion_NoFilter(currentTheta, candidates, answeredQuestionIds, randomFactors) ==
    IF Len(candidates) = 0 THEN null
    ELSE SelectLoop(currentTheta, candidates, randomFactors, 1, NegInfinity, null)

selectOptimalQuestion(currentTheta, candidates, answeredQuestionIds, randomFactors) ==
    LET availableQuestions ==
            SelectSeq(candidates, LAMBDA q : q.id \notin answeredQuestionIds)
    IN  IF Len(availableQuestions) = 0 THEN null
        ELSE SelectLoop(currentTheta, availableQuestions, randomFactors, 1,
                        NegInfinity, null)

\* Candidate lists: none; three items at one difficulty and discrimination
\* that differ in guessing, with a harder flat one; two equal items and one far
\* above the learner.
Banks ==
    { <<>>,
      << QuestionIRT("x", 0, Unit, GUESSING_MAX), QuestionIRT("y", 0, Unit, 0),
         QuestionIRT("z", 2 * Unit, DISCRIMINATION_MIN, GUESSING_DEFAULT) >>,
      << QuestionIRT("p", 0, Unit, GUESSING_DEFAULT),
         QuestionIRT("q", 0, Unit, GUESSING_DEFAULT),
         QuestionIRT("r", 3 * Unit, DISCRIMINATION_MAX, GUESSING_DEFAULT) >> }

\* Answered sets at the start: nothing, one candidate, ids of another list.
AnsweredSets == {{}, {"y"}, {"p", "w"}}

NoSelect == [called |-> FALSE]

SelectStart ==
    /\ ability \in {0, 2 * Unit}
    /\ bank \in Banks
    /\ answeredIds \in AnsweredSets
    /\ lastSelect = NoSelect

SelIdle ==
    /\ ability = 0
    /\ bank = <<>>
    /\ answeredIds = {}
    /\ lastSelect = NoSelect

\* One selection; the learner answers the question selected, if any.
SelectQuestion ==
    /\ lastSelect.called => lastSelect.result # null
    /\ \E randomFactors \in [1..Len(bank) -> RandomFactors] :
         LET result == selectOptimalQuestion(ability, bank, answeredIds, randomFactors)
         IN  /\ lastSelect' = [called |-> TRUE, answered |-> answeredIds,
                               randomFactors |-> randomFactors, result |-> result]
             /\ answeredIds' = IF result = null THEN answeredIds
                               ELSE answeredIds \cup {result.id}
    /\ UNCHANGED <<ability, bank>>
    /\ UNCHANGED <<irtVars, sm2Vars, putVars, probeVars, monVars>>


(***************************************************************************)
(* irt.ts: evaluations of probabilityCorrect and fisherInformation of one  *)
(* item at points of a theta grid, and practice on that item: correct      *)
(* answers one after the other, each an updateTheta from the theta the one *)
(* before returned.                                                        *)
(***************************************************************************)
MaxPractice == 3

\* Thetas from -3 to 3 in steps of 0.25.
ThetaGrid == {k * (Unit \div 4) : k \in -12..12}

\* A medium item with the default guessing, a sharp one without guessing and
\* a flat easy one with the largest guessing.
ProbeItems ==
    { Params(0, Unit, GUESSING_DEFAULT),
      Params(Unit, 2 * Unit, 0),
      Params(-Unit, DISCRIMINATION_MIN, GUESSING_MAX) }

Evaluation(theta, params) ==
    [theta |-> theta, probability |-> probabilityCorrect(theta, params),
     information |-> fisherInformation(theta, params)]

ProbeStart ==
    \E params \in ProbeItems, theta \in ThetaGrid :
        probe = [called |-> TRUE, params |-> params,
                 evaluation |-> Evaluation(theta, params),
                 previous |-> Evaluation(theta, params),
                 estimate |-> theta, increments |-> <<>>]

ProbeIdle == probe = [called |-> FALSE]

\* The two functions are evaluated at another theta; practice restarts there.
Evaluate ==
    /\ \E theta \in ThetaGrid :
         probe' = [probe EXCEPT !.evaluation = Evaluation(theta, probe.params),
                                !.previous = probe.evaluation,
                                !.estimate = theta, !.increments = <<>>]
    /\ UNCHANGED <<irtVars, sm2Vars, putVars, selVars, monVars>>

\* One more correct answer on the item.
Practice ==
    /\ Len(probe.increments) < MaxPractice
    /\ LET result == updateTheta(probe.estimate, probe.params, TRUE)
       IN  probe' = [probe EXCEPT !.estimate = result.thetaAfter,
                                  !.increments = Append(@, result.thetaChange)]
    /\ UNCHANGED <<irtVars, sm2Vars, putVars, selVars, monVars>>


(***************************************************************************)
(* page.tsx, lines 990-1339: SM-2 spaced repetition                        *)
(***************************************************************************)
QUALITY_MIN == 0
QUALITY_MAX == 5
EASE_FACTOR_MIN == 130
EASE_FACTOR_DEFAULT == 250
INTERVALS_FIRST == 1
INTERVALS_SECOND == 3

\* Math.round: the nearest integer, halves upward; x counts 1/Cent.
Round(x) == (x + Cent \div 2) \div Cent

TicksPerDay == 3

\* Date.setDate(getDate() + days): the same time of day, days later.
AddDays(date, days) == date + days * TicksPerDay

\* Variants of calculateNextReview, each one slip away from the code: the
\* interval after a failed recall, the interval at the second repetition and
\* the floor of the ease factor.
SM2Variant(currentParams, quality, today, failed, second, floor) ==
    LET q == clamp(quality, QUALITY_MIN, QUALITY_MAX)
        repetitions == IF q < 3 THEN 0 ELSE currentParams.repetitions + 1
        interval ==
            IF q < 3 THEN (IF failed < 0 THEN currentParams.interval ELSE failed)
            ELSE IF repetitions = 1 THEN INTERVALS_FIRST
            ELSE IF repetitions = 2 THEN second
            ELSE Round(currentParams.interval * currentParams.easeFactor)
        easeFactor == currentParams.easeFactor + (10 - (5 - q) * (8 + (5 - q) * 2))
    IN  [easeFactor |-> Max(floor, easeFactor), interval |-> interval,
         repetitions |-> repetitions, nextReviewDate |-> AddDays(today, interval),
         quality |-> q]

\* The mutant of C5: the ease factor is not clamped (no Math.max).
calculateNextReview_NoFloor(currentParams, quality, today) ==
    SM2Variant(currentParams, quality, today, INTERVALS_FIRST, INTERVALS_SECOND, -1000)

\* The mutant of C6: a failed recall resets the repetitions and keeps the interval.
calculateNextReview_KeepInterval(currentParams, quality, today) ==
    SM2Variant(currentParams, quality, today, -1, INTERVALS_SECOND, EASE_FACTOR_MIN)

\* The mutant of C7: a failed recall makes the card due at once (interval 0).
calculateNextReview_ZeroInterval(currentParams, quality, today) ==
    SM2Variant(currentParams, quality, today, 0, INTERVALS_SECOND, EASE_FACTOR_MIN)

\* The mutant of C8: the second interval of the original SM-2 (6 days).
calculateNextReview_SecondSix(currentParams, quality, today) ==
    SM2Variant(currentParams, quality, today, INTERVALS_FIRST, 6, EASE_FACTOR_MIN)

\* The mutant of C18: the ease factor is updated after a successful recall only.
calculateNextReview_EaseOnSuccess(currentParams, quality, today) ==
    LET q == clamp(quality, QUALITY_MIN, QUALITY_MAX)
        repetitions == IF q < 3 THEN 0 ELSE currentParams.repetitions + 1
        interval ==
            IF q < 3 THEN INTERVALS_FIRST
            ELSE IF repetitions = 1 THEN INTERVALS_FIRST
            ELSE IF repetitions = 2 THEN INTERVALS_SECOND
            ELSE Round(currentParams.interval * currentParams.easeFactor)
        easeFactor == IF q < 3 THEN currentParams.easeFactor
                      ELSE currentParams.easeFactor + (10 - (5 - q) * (8 + (5 - q) * 2))
    IN  [easeFactor |-> Max(EASE_FACTOR_MIN, easeFactor), interval |-> interval,
         repetitions |-> repetitions, nextReviewDate |-> AddDays(today, interval),
         quality |-> q]

\* The mutant of C20: the quality is used as given (no clamp).
calculateNextReview_NoClamp(currentParams, quality, today) ==
    LET q == quality
        repetitions == IF q < 3 THEN 0 ELSE currentParams.repetitions + 1
        interval ==
            IF q < 3 THEN INTERVALS_FIRST
            ELSE IF repetitions = 1 THEN INTERVALS_FIRST
            ELSE IF repetitions = 2 THEN INTERVALS_SECOND
            ELSE Round(currentParams.interval * currentParams.easeFactor)
        easeFactor == currentParams.easeFactor + (10 - (5 - q) * (8 + (5 - q) * 2))
    IN  [easeFactor |-> Max(EASE_FACTOR_MIN, easeFactor), interval |-> interval,
         repetitions |-> repetitions, nextReviewDate |-> AddDays(today, interval),
         quality |-> q]

\* The mutant of C21: every repetition from the second on gets
\* INTERVALS.SECOND (>= 2 in place of === 2).
calculateNextReview_StallAtSecond(currentParams, quality, today) ==
    LET q == clamp(quality, QUALITY_MIN, QUALITY_MAX)
        repetitions == IF q < 3 THEN 0 ELSE currentParams.repetitions + 1
        interval ==
            IF q < 3 THEN INTERVALS_FIRST
            ELSE IF repetitions = 1 THEN INTERVALS_FIRST
            ELSE INTERVALS_SECOND
        easeFactor == currentParams.easeFactor + (10 - (5 - q) * (8 + (5 - q) * 2))
    IN  [easeFactor |-> Max(EASE_FACTOR_MIN, easeFactor), interval |-> interval,
         repetitions |-> repetitions, nextReviewDate |-> AddDays(today, interval),
         quality |-> q]

\* today is the value of new Date() inside the call.
calculateNextReview(currentParams, quality, today) ==
    LET q == clamp(quality, QUALITY_MIN, QUALITY_MAX)
        repetitions == IF q < 3 THEN 0 ELSE currentParams.repetitions + 1
        interval ==
            IF q < 3 THEN INTERVALS_FIRST
            ELSE IF repetitions = 1 THEN INTERVALS_FIRST
            ELSE IF repetitions = 2 THEN INTERVALS_SECOND
            ELSE Round(currentParams.interval * currentParams.easeFactor)
        easeFactor == currentParams.easeFactor + (10 - (5 - q) * (8 + (5 - q) * 2))
    IN  [easeFactor |-> Max(EASE_FACTOR_MIN, easeFactor), interval |-> interval,
         repetitions |-> repetitions, nextReviewDate |-> AddDays(today, interval),
         quality |-> q]

DayOf(date) == date \div TicksPerDay
\* Date.setHours(0, 0, 0, 0) and Date.setHours(23, 59, 59, 999)
StartOfDay(date) == DayOf(date) * TicksPerDay
EndOfDay(date) == DayOf(date) * TicksPerDay + (TicksPerDay - 1)

\* The mutant of C9: the query compares with asOfDate itself, not the day's end.
getDueReviews_NoEndOfDay(list, asOfDate) ==
    LET IsDue(item) == item.nextReviewDate <= asOfDate
    IN  SelectSeq(list, IsDue)

getDueReviews(list, asOfDate) ==
    LET today == EndOfDay(asOfDate)
        IsDue(item) == item.nextReviewDate <= today
    IN  SelectSeq(list, IsDue)

\* The mutant of C29: the comparison turned round (> in place of <).
getOverdueReviews_Reversed(list, asOfDate) ==
    LET today == StartOfDay(asOfDate)
        IsOverdue(item) == item.nextReviewDate > today
    IN  SelectSeq(list, IsOverdue)

\* The mutant of C10: <= in place of <.
getOverdueReviews_Inclusive(list, asOfDate) ==
    LET today == StartOfDay(asOfDate)
        IsOverdue(item) == item.nextReviewDate <= today
    IN  SelectSeq(list, IsOverdue)

getOverdueReviews(list, asOfDate) ==
    LET today == StartOfDay(asOfDate)
        IsOverdue(item) == item.nextReviewDate < today
    IN  SelectSeq(list, IsOverdue)

\* The mutant of C22: the sum is returned as it is (no Math.max(0, urgency)).
calculateReviewUrgency_NoFloor(item, asOfDate) ==
    LET daysOverdue == (asOfDate - item.nextReviewDate) \div TicksPerDay
        overdue == IF daysOverdue > 0 THEN daysOverdue * 10 * Cent ELSE 0
        difficulty == (EASE_FACTOR_DEFAULT - item.easeFactor) * 5
        newItem == IF item.repetitions < 3 THEN (3 - item.repetitions) * 5 * Cent ELSE 0
    IN  overdue + difficulty + newItem

\* The urgency score in 1/Cent; asOfDate is the value of new Date() inside
\* the call, and daysOverdue the floor of the elapsed time in days.
calculateReviewUrgency(item, asOfDate) ==
    LET daysOverdue == (asOfDate - item.nextReviewDate) \div TicksPerDay
        overdue == IF daysOverdue > 0 THEN daysOverdue * 10 * Cent ELSE 0
        difficulty == (EASE_FACTOR_DEFAULT - item.easeFactor) * 5
        newItem == IF item.repetitions < 3 THEN (3 - item.repetitions) * 5 * Cent ELSE 0
    IN  Max(0, overdue + difficulty + newItem)

RECURSIVE SumOf(_, _)
SumOf(list, field) ==
    IF list = <<>> THEN 0 ELSE Head(list)[field] + SumOf(Tail(list), field)

\* asOfDate is the value of new Date() inside the call; the averages count
\* 1/Cent.
calculateReviewStats(list, asOfDate) ==
    LET today == StartOfDay(asOfDate)
        Count(Test(_)) == Len(SelectSeq(list, Test))
        IsDue(item) == item.nextReviewDate <= today
        IsOverdue(item) == item.nextReviewDate < today
        IsLearned(item) == item.repetitions >= 3
        IsLearning(item) == ~(item.repetitions >= 3)
    IN  [total |-> Len(list), due |-> Count(IsDue), overdue |-> Count(IsOverdue),
         learned |-> Count(IsLearned), learning |-> Count(IsLearning),
         averageEaseFactor |-> IF Len(list) > 0 THEN SumOf(list, "easeFactor") \div Len(list)
                               ELSE EASE_FACTOR_DEFAULT,
         averageInterval |-> IF Len(list) > 0
                             THEN (SumOf(list, "interval") * Cent) \div Len(list) ELSE 0]

(***************************************************************************)
(* The review cards of one learner: one card, which starts as any stored   *)
(* card.  A review rates a card at the current time and stores the         *)
(* SM2Result in it.                                                        *)
(***************************************************************************)
MaxReviews == 5
LastDay == 3

SM2Params(e, i, r) == [easeFactor |-> e, interval |-> i, repetitions |-> r]

NewCard == SM2Params(EASE_FACTOR_DEFAULT, 1, 0)

\* Stored cards: a new one, a well-learned one at the ease floor, and one whose
\* ease factor is below the floor.
InputCards == {NewCard, SM2Params(EASE_FACTOR_MIN, 6, 5), SM2Params(100, 1, 2)}

\* Ratings, two of them outside 0..5.
Qualities == (QUALITY_MIN - 1)..(QUALITY_MAX + 1)

ReviewItem(id, card, last, next) ==
    [id |-> id, easeFactor |-> card.easeFactor, interval |-> card.interval,
     repetitions |-> card.repetitions, lastReviewDate |-> last,
     nextReviewDate |-> next]

CardOf(item) == SM2Params(item.easeFactor, item.interval, item.repetitions)

NoReview == [called |-> FALSE]

SM2Start ==
    /\ \E card \in InputCards :
         /\ items = <<ReviewItem(1, card, -1, 0)>>
         /\ startCard = card
         /\ perfectRun = <<IF card = NewCard THEN 0 ELSE -1>>
    /\ now = 0
    /\ reviews = 0
    /\ lastReview = NoReview

SM2Idle ==
    /\ items = <<>>
    /\ now = 0
    /\ reviews = 0
    /\ lastReview = NoReview
    /\ perfectRun = <<>>
    /\ startCard = NewCard

Review ==
    /\ reviews < MaxReviews
    /\ \E i \in DOMAIN items, quality \in Qualities :
         LET before == CardOf(items[i])
             result == calculateNextReview(before, quality, now)
         IN  /\ items' = [items EXCEPT ![i] =
                            ReviewItem(items[i].id, result, now, result.nextReviewDate)]
             /\ lastReview' = [called |-> TRUE, id |-> items[i].id, before |-> before,
                               quality |-> quality, at |-> now, result |-> result]
             /\ perfectRun' = [perfectRun EXCEPT ![i] =
                                 IF perfectRun[i] >= 0 /\ quality = QUALITY_MAX
                                 THEN perfectRun[i] + 1 ELSE -1]
    /\ reviews' = reviews + 1
    /\ UNCHANGED <<now, startCard>>
    /\ UNCHANGED <<irtVars, putVars, selVars, probeVars, monVars>>

Tick ==
    /\ now < EndOfDay(LastDay * TicksPerDay)
    /\ now' = now + 1
    /\ UNCHANGED <<items, reviews, lastReview, perfectRun, startCard>>
    /\ UNCHANGED <<irtVars, putVars, selVars, probeVars, monVars>>


(***************************************************************************)
(* part_001: PUT, submit an answer.  The handler is a sequence of awaited  *)
(* database calls; another request may run between any two of them, so     *)
(* each call is one step of the request.  No call is inside a transaction. *)
(***************************************************************************)
UserIds == {"u1", "u2"}
QuestionIds == {"q1", "q2"}
SessionIds == {"s1"}
Requests == {"r1", "r2"}

\* The question table's fixed columns.
QuestionBank ==
    [q1 |-> [subject |-> "mathematics", difficulty |-> 0, discrimination |-> Unit,
             correctAnswer |-> "B"],
     q2 |-> [subject |-> "physics", difficulty |-> Unit,
             discrimination |-> (3 * Unit) \div 2, correctAnswer |-> "B"]]

\* String.toUpperCase on the answers in use.
toUpperCase(answer) ==
    CASE answer = "a" -> "A"
      [] answer = "b" -> "B"
      [] OTHER -> answer

Body(sessionId, userId, questionId, selectedAnswer) ==
    [sessionId |-> sessionId, userId |-> userId, questionId |-> questionId,
     selectedAnswer |-> selectedAnswer]

\* Request bodies: the well-formed ones, and one each with a missing field
\* (the empty string), an unknown question, an unknown user, an unknown session.
Bodies ==
    {Body("s1", u, q, a) : u \in UserIds, q \in QuestionIds, a \in {"b", "A"}}
    \cup {Body("s1", "u1", "q1", ""), Body("s1", "u1", "q0", "B"),
          Body("s1", "u0", "q1", "B"), Body("s0", "u1", "q1", "B")}

\* Determine which theta to update.
ThetaFieldOf(code) ==
    IF code = "mathematics" \/ code = "maths" THEN "mathsTheta"
    ELSE IF code = "physics" THEN "physicsTheta"
    ELSE IF code = "chemistry" THEN "chemistryTheta"
    ELSE "englishTheta"

\* PsychologicalEngine.calculateVariableReward: one of four tiers, drawn at
\* random (jackpot, medium bonus, small bonus, normal); baseXP 15 or 5 and
\* baseCoins 5 or 2, so that every rounded product is the number written here.
VariableRewards(isCorrect) ==
    IF isCorrect
    THEN {[xp |-> 45, coins |-> 25], [xp |-> 23, coins |-> 10],
          [xp |-> 18, coins |-> 5], [xp |-> 15, coins |-> 5]}
    ELSE {[xp |-> 15, coins |-> 10], [xp |-> 8, coins |-> 4],
          [xp |-> 6, coins |-> 2], [xp |-> 5, coins |-> 2]}

NewUser ==
    [mathsTheta |-> 0, physicsTheta |-> 0, chemistryTheta |-> 0, englishTheta |-> 0,
     totalQuestions |-> 0, correctAnswers |-> 0, totalXP |-> 0, focusCoins |-> 0]

Idle == [pc |-> "idle"]

PutStart ==
    /\ users = [u \in UserIds |-> NewUser]
    /\ questions = [q \in QuestionIds |-> [timesAsked |-> 0, timesCorrect |-> 0]]
    /\ sessions = [x \in SessionIds |-> [questionsAttempted |-> 0, questionsCorrect |-> 0]]
    /\ responses = <<>>
    /\ reqs = [r \in Requests |-> Idle]

PutIdle ==
    /\ users = <<>>
    /\ questions = <<>>
    /\ sessions = <<>>
    /\ responses = <<>>
    /\ reqs = <<>>

Respond(r, status) ==
    reqs' = [reqs EXCEPT ![r] = [reqs[r] EXCEPT !.pc = "done"] @@ [status |-> status]]

Goto(r, pc) == reqs' = [reqs EXCEPT ![r].pc = pc]

Bump(n, cond) == IF cond THEN n + 1 ELSE n

\* request.json() and the check of the required fields.
Receive(r) ==
    /\ reqs[r].pc = "idle"
    /\ \E body \in Bodies :
         IF body.sessionId = "" \/ body.userId = "" \/ body.questionId = ""
            \/ body.selectedAnswer = ""
         THEN reqs' = [reqs EXCEPT ![r] = [pc |-> "done", body |-> body, status |-> 400]]
         ELSE reqs' = [reqs EXCEPT ![r] = [pc |-> "findQuestion", body |-> body]]
    /\ UNCHANGED <<dbVars, irtVars, sm2Vars, selVars, probeVars, monVars>>

\* db.question.findUnique, then the check of the answer.
FindQuestion(r) ==
    /\ reqs[r].pc = "findQuestion"
    /\ LET id == reqs[r].body.questionId
       IN  IF id \notin DOMAIN questions
           THEN Respond(r, 404)
           ELSE reqs' = [reqs EXCEPT ![r] = [pc |-> "findUser", questionId |-> id,
                    isCorrect |-> toUpperCase(reqs[r].body.selectedAnswer)
                                    = toUpperCase(QuestionBank[id].correctAnswer)]
                    @@ reqs[r]]
    /\ UNCHANGED <<dbVars, irtVars, sm2Vars, selVars, probeVars, monVars>>

\* db.user.findUnique, the choice of the theta field and IRTEngine.updateTheta
\* on the theta just read.
FindUser(r) ==
    /\ reqs[r].pc = "findUser"
    /\ LET id == reqs[r].body.userId
       IN  IF id \notin DOMAIN users
           THEN Respond(r, 404)
           ELSE LET question == QuestionBank[reqs[r].questionId]
                    thetaField == ThetaFieldOf(question.subject)
                    currentTheta == users[id][thetaField]
                    irtParams == Params(question.difficulty, question.discrimination,
                                        GUESSING_DEFAULT)
                IN  reqs' = [reqs EXCEPT ![r] = [pc |-> "updateUser",
                         thetaField |-> thetaField,
                         irtResult |-> updateTheta(currentTheta, irtParams,
                                                   reqs[r].isCorrect)] @@ reqs[r]]
    /\ UNCHANGED <<dbVars, irtVars, sm2Vars, selVars, probeVars, monVars>>

\* The mutant of C14: the theta is written to mathsTheta whatever the subject.
UpdateUser_WrongField(r) ==
    /\ reqs[r].pc = "updateUser"
    /\ LET id == reqs[r].body.userId
       IN  users' = [users EXCEPT ![id] =
               [@ EXCEPT !.mathsTheta = reqs[r].irtResult.thetaAfter,
                         !.totalQuestions = @ + 1,
                         !.correctAnswers = Bump(@, reqs[r].isCorrect)]]
    /\ Goto(r, "updateQuestion")
    /\ UNCHANGED <<questions, sessions, responses>>
    /\ UNCHANGED <<irtVars, sm2Vars, selVars, probeVars, monVars>>

\* db.user.update: the theta computed from the earlier read is written, the
\* counters are incremented in the database.
UpdateUser(r) ==
    /\ reqs[r].pc = "updateUser"
    /\ LET id == reqs[r].body.userId
       IN  users' = [users EXCEPT ![id] =
               [@ EXCEPT ![reqs[r].thetaField] = reqs[r].irtResult.thetaAfter,
                         !.totalQuestions = @ + 1,
                         !.correctAnswers = Bump(@, reqs[r].isCorrect)]]
    /\ Goto(r, "updateQuestion")
    /\ UNCHANGED <<questions, sessions, responses>>
    /\ UNCHANGED <<irtVars, sm2Vars, selVars, probeVars, monVars>>

\* db.question.update
UpdateQuestion(r) ==
    /\ reqs[r].pc = "updateQuestion"
    /\ questions' = [questions EXCEPT ![reqs[r].questionId] =
           [timesAsked |-> @.timesAsked + 1,
            timesCorrect |-> Bump(@.timesCorrect, reqs[r].isCorrect)]]
    /\ Goto(r, "updateSession")
    /\ UNCHANGED <<users, sessions, responses>>
    /\ UNCHANGED <<irtVars, sm2Vars, selVars, probeVars, monVars>>

\* db.session.update: it throws when no such session exists, and the catch
\* block answers 500.
UpdateSession(r) ==
    /\ reqs[r].pc = "updateSession"
    /\ LET id == reqs[r].body.sessionId
       IN  IF id \notin DOMAIN sessions
           THEN Respond(r, 500) /\ UNCHANGED sessions
           ELSE /\ sessions' = [sessions EXCEPT ![id] =
                      [questionsAttempted |-> @.questionsAttempted + 1,
                       questionsCorrect |-> Bump(@.questionsCorrect, reqs[r].isCorrect)]]
                /\ Goto(r, "createResponse")
    /\ UNCHANGED <<users, questions, responses>>
    /\ UNCHANGED <<irtVars, sm2Vars, selVars, probeVars, monVars>>

\* db.questionResponse.create
CreateResponse(r) ==
    /\ reqs[r].pc = "createResponse"
    /\ responses' = Append(responses,
           [userId |-> reqs[r].body.userId, questionId |-> reqs[r].questionId,
            sessionId |-> reqs[r].body.sessionId, isCorrect |-> reqs[r].isCorrect,
            thetaBefore |-> reqs[r].irtResult.thetaBefore,
            thetaAfter |-> reqs[r].irtResult.thetaAfter])
    /\ Goto(r, "rewardUser")
    /\ UNCHANGED <<users, questions, sessions>>
    /\ UNCHANGED <<irtVars, sm2Vars, selVars, probeVars, monVars>>

\* calculateVariableReward and db.user.update of totalXP and focusCoins
RewardUser(r) ==
    /\ reqs[r].pc = "rewardUser"
    /\ \E reward \in VariableRewards(reqs[r].isCorrect) :
         users' = [users EXCEPT ![reqs[r].body.userId] =
             [@ EXCEPT !.totalXP = @ + reward.xp, !.focusCoins = @ + reward.coins]]
    /\ Goto(r, "nextQuestion")
    /\ UNCHANGED <<questions, sessions, responses>>
    /\ UNCHANGED <<irtVars, sm2Vars, selVars, probeVars, monVars>>

\* getAdaptiveQuestions (reads only) and the 200 response
NextQuestion(r) ==
    /\ reqs[r].pc = "nextQuestion"
    /\ Respond(r, 200)
    /\ UNCHANGED <<dbVars, irtVars, sm2Vars, selVars, probeVars, monVars>>

(***************************************************************************)
(* part_001: PATCH, end a session.  As in PUT each awaited database call   *)
(* is one step of the request.  The handler never looks at the session's   *)
(* endTime.  Of the session only the fields the learner's totals depend on *)
(* are kept (averageTimePerQ, notes and focusScore are left out).          *)
(***************************************************************************)
XP_PER_QUESTION == 10
XP_CORRECT_BONUS == 5
XP_SESSION_COMPLETION == 50

\* PsychologicalEngine.calculateSessionXP(...).totalXP; the multiplier is in
\* hundredths.
calculateSessionXP(questionsAnswered, correctAnswers, sessionDurationMinutes, targetMinutes, isDistractionFree) ==
    LET baseXP == questionsAnswered * XP_PER_QUESTION
        correctBonus == IF correctAnswers > 0 THEN correctAnswers * XP_CORRECT_BONUS ELSE 0
        multiplier ==
            IF questionsAnswered > 0
            THEN IF 10 * correctAnswers >= 9 * questionsAnswered THEN 150
                 ELSE IF 10 * correctAnswers >= 8 * questionsAnswered THEN 125
                 ELSE IF 2 * correctAnswers < questionsAnswered THEN 75
                 ELSE Cent
            ELSE Cent
        accuracyLoss == IF questionsAnswered > 0 /\ 2 * correctAnswers < questionsAnswered
                        THEN Round(baseXP * 25) ELSE 0
        complete == 10 * sessionDurationMinutes >= 9 * targetMinutes
        xpEarned == Round((baseXP + correctBonus
                           + (IF complete THEN XP_SESSION_COMPLETION ELSE 0)
                           + (IF isDistractionFree THEN 30 ELSE 0)) * multiplier)
        xpLost == accuracyLoss + (IF complete THEN 0 ELSE 30)
    IN  Max(0, xpEarned - xpLost)

\* PsychologicalEngine.updateStreak, without the bonus, penalty and warning.
updateStreak(currentStreak, longestStreak, didStudyToday) ==
    IF didStudyToday
    THEN [currentStreak |-> currentStreak + 1,
          longestStreak |-> Max(currentStreak + 1, longestStreak), isBroken |-> FALSE]
    ELSE [currentStreak |-> 0, longestStreak |-> longestStreak, isBroken |-> TRUE]

\* A session that has not been ended.
OpenSession(userId, attempted, correct, distractions) ==
    [userId |-> userId, questionsAttempted |-> attempted, questionsCorrect |-> correct,
     distractions |-> distractions, ended |-> FALSE, durationMinutes |-> 0,
     xpEarned |-> 0]

\* endTime - startTime in minutes, at the calls of PATCH.
Durations == {30, 110}

PatchStart ==
    /\ \E streak \in {<<0, 0>>, <<2, 5>>} :
         users = [u \in {"u1"} |->
                    [totalSessions |-> 0, totalStudyMinutes |-> 0, totalXP |-> 0,
                     currentStreak |-> streak[1], longestStreak |-> streak[2]]]
    /\ \E answers \in {<<0, 0>>, <<10, 9>>, <<10, 4>>}, distractions \in {0, 1} :
         sessions = [x \in SessionIds |->
                       OpenSession("u1", answers[1], answers[2], distractions)]
    /\ questions = <<>>
    /\ responses = <<>>
    /\ reqs = [r \in Requests |-> Idle]

\* request.json() and the check of sessionId.
PatchReceive(r) ==
    /\ reqs[r].pc = "idle"
    /\ \E sessionId \in {"s1", "s0", ""} :
         IF sessionId = ""
         THEN reqs' = [reqs EXCEPT ![r] =
                         [pc |-> "done", sessionId |-> sessionId, status |-> 400]]
         ELSE reqs' = [reqs EXCEPT ![r] =
                         [pc |-> "findSession", sessionId |-> sessionId]]
    /\ UNCHANGED <<dbVars, irtVars, sm2Vars, selVars, probeVars, monVars>>

\* db.session.findUnique, then the duration up to now (not less than the
\* duration an earlier end stored) and the XP of the session.
PatchFindSession(r) ==
    /\ reqs[r].pc = "findSession"
    /\ LET id == reqs[r].sessionId
       IN  IF id \notin DOMAIN sessions
           THEN Respond(r, 404)
           ELSE LET session == sessions[id]
                IN  \E durationMinutes \in Durations :
                      /\ durationMinutes >= session.durationMinutes
                      /\ reqs' = [reqs EXCEPT ![r] =
                             [pc |-> "updateSession", sessionId |-> id,
                              session |-> session,
                              durationMinutes |-> durationMinutes,
                              xp |-> calculateSessionXP(session.questionsAttempted,
                                        session.questionsCorrect, durationMinutes, 120,
                                        session.distractions = 0)]]
    /\ UNCHANGED <<dbVars, irtVars, sm2Vars, selVars, probeVars, monVars>>

\* db.session.update
PatchUpdateSession(r) ==
    /\ reqs[r].pc = "updateSession"
    /\ sessions' = [sessions EXCEPT ![reqs[r].sessionId] =
           [@ EXCEPT !.ended = TRUE, !.durationMinutes = reqs[r].durationMinutes,
                     !.xpEarned = reqs[r].xp]]
    /\ Goto(r, "updateUser")
    /\ UNCHANGED <<users, questions, responses>>
    /\ UNCHANGED <<irtVars, sm2Vars, selVars, probeVars, monVars>>

\* db.user.update: the three increments.
PatchUpdateUser(r) ==
    /\ reqs[r].pc = "updateUser"
    /\ users' = [users EXCEPT ![reqs[r].session.userId] =
           [@ EXCEPT !.totalStudyMinutes = @ + reqs[r].durationMinutes,
                     !.totalSessions = @ + 1,
                     !.totalXP = @ + reqs[r].xp]]
    /\ Goto(r, "findUser")
    /\ UNCHANGED <<questions, sessions, responses>>
    /\ UNCHANGED <<irtVars, sm2Vars, selVars, probeVars, monVars>>

\* db.user.findUnique and updateStreak(..., true) on the streaks just read.
PatchFindUser(r) ==
    /\ reqs[r].pc = "findUser"
    /\ LET user == users[reqs[r].session.userId]
       IN  reqs' = [reqs EXCEPT ![r] = [pc |-> "updateStreak",
                streakResult |-> updateStreak(user.currentStreak, user.longestStreak,
                                              TRUE)] @@ reqs[r]]
    /\ UNCHANGED <<dbVars, irtVars, sm2Vars, selVars, probeVars, monVars>>

\* db.user.update of the streaks, and the 200 response.
PatchUpdateStreak(r) ==
    /\ reqs[r].pc = "updateStreak"
    /\ users' = [users EXCEPT ![reqs[r].session.userId] =
           [@ EXCEPT !.currentStreak = reqs[r].streakResult.currentStreak,
                     !.longestStreak = reqs[r].streakResult.longestStreak]]
    /\ Respond(r, 200)
    /\ UNCHANGED <<questions, sessions, responses>>
    /\ UNCHANGED <<irtVars, sm2Vars, selVars, probeVars, monVars>>

(***************************************************************************)
(* part_003: DistractionMonitor.  The class starts no timer of its own     *)
(* (the setInterval is a comment): its caller calls checkForegroundApp,    *)
(* at times of its choosing.  A check awaits getForegroundApp, so start,   *)
(* stop, the user and the clock may act between its two halves.            *)
(***************************************************************************)
warningDelaySec == 5
forceStopDelaySec == 15

MaxClock == 20

Home == "com.termux"
Apps == {Home, "com.instagram.android", "com.google.android.youtube"}

\* DISTRACTING_APPS.find(...)?.isDistracting ?? false, on the apps in use.
isDistractingApp(packageName) ==
    packageName \in {"com.instagram.android", "com.google.android.youtube"}

\* null, as a Date and as a ForegroundApp.
NoTime == 0 - 1
NoApp == "null"
NoEvent == [action |-> "none"]
NoStop == [called |-> FALSE]
FreshEpisode == [warned |-> FALSE]

MonitorStart ==
    /\ isRunning = FALSE
    /\ distractionStartTime = NoTime
    /\ lastDistraction = NoEvent
    /\ check = [pc |-> "idle"]
    /\ clock = 0
    /\ foreground \in Apps
    /\ episode = FreshEpisode
    /\ lastStop = NoStop

MonitorIdle ==
    /\ isRunning = FALSE
    /\ distractionStartTime = NoTime
    /\ lastDistraction = NoEvent
    /\ check = [pc |-> "idle"]
    /\ clock = 0
    /\ foreground = Home
    /\ episode = FreshEpisode
    /\ lastStop = NoStop

otherVars == <<irtVars, sm2Vars, putVars, selVars, probeVars>>

\* DistractionMonitor.start
Start ==
    /\ isRunning' = TRUE
    /\ UNCHANGED <<distractionStartTime, lastDistraction, check, clock, foreground,
                   episode, lastStop>>
    /\ UNCHANGED otherVars

\* DistractionMonitor.stop
Stop ==
    /\ isRunning' = FALSE
    /\ UNCHANGED <<distractionStartTime, lastDistraction, check, clock, foreground,
                   episode, lastStop>>
    /\ UNCHANGED otherVars

\* checkForegroundApp up to its await of getForegroundApp; it returns at once,
\* changing nothing, when the monitor is not running.
CheckBegin ==
    /\ check.pc = "idle"
    /\ isRunning
    /\ check' = [pc |-> "getForegroundApp"]
    /\ UNCHANGED <<isRunning, distractionStartTime, lastDistraction, clock, foreground,
                   episode, lastStop>>
    /\ UNCHANGED otherVars

\* handleDistraction: the start time is set at the first detection; past
\* forceStopDelaySec the app is force-stopped (and leaves the foreground),
\* else past warningDelaySec the warning is issued.
handleDistraction(packageName) ==
    LET start == IF distractionStartTime = NoTime THEN clock ELSE distractionStartTime
        elapsedSec == clock - start
    IN  /\ distractionStartTime' = start
        /\ IF elapsedSec >= forceStopDelaySec
           THEN /\ lastDistraction' = [packageName |-> packageName, detectedAt |-> start,
                                       durationSec |-> elapsedSec,
                                       action |-> "force_stopped"]
                /\ lastStop' = [called |-> TRUE, packageName |-> packageName,
                                warned |-> episode.warned, running |-> isRunning]
                /\ foreground' = IF foreground = packageName THEN Home ELSE foreground
                /\ episode' = IF foreground = packageName THEN FreshEpisode ELSE episode
           ELSE /\ episode' = IF elapsedSec >= warningDelaySec
                              THEN [warned |-> TRUE] ELSE episode
                /\ UNCHANGED <<lastDistraction, lastStop, foreground>>

\* checkForegroundApp from the return of getForegroundApp on: the app read is
\* the one in the foreground now, or null when the read fails.
CheckResume ==
    /\ check.pc = "getForegroundApp"
    /\ check' = [pc |-> "idle"]
    /\ \E app \in {foreground, NoApp} :
         IF app = NoApp
         THEN UNCHANGED <<distractionStartTime, lastDistraction, foreground, episode,
                          lastStop>>
         ELSE IF isDistractingApp(app)
         THEN handleDistraction(app)
         ELSE /\ distractionStartTime' = NoTime
              /\ UNCHANGED <<lastDistraction, foreground, episode, lastStop>>
    /\ UNCHANGED <<isRunning, clock>>
    /\ UNCHANGED otherVars

\* The user brings another app to the foreground.
AppSwitch ==
    /\ \E app \in Apps \ {foreground} : foreground' = app
    /\ episode' = FreshEpisode
    /\ UNCHANGED <<isRunning, distractionStartTime, lastDistraction, check, clock,
                   lastStop>>
    /\ UNCHANGED otherVars

\* Time passes: a second, or the one or the other delay.
TimePasses ==
    /\ \E d \in {1, warningDelaySec, forceStopDelaySec} :
         /\ clock + d <= MaxClock
         /\ clock' = clock + d
    /\ UNCHANGED <<isRunning, distractionStartTime, lastDistraction, check, foreground,
                   episode, lastStop>>
    /\ UNCHANGED otherVars

(***************************************************************************)
(* Specifications                                                          *)
(***************************************************************************)
IRTInit == IRTStart /\ SM2Idle /\ PutIdle /\ SelIdle /\ ProbeIdle /\ MonitorIdle
IRTNext == AnswerQuestion
SpecIRT == IRTInit /\ [][IRTNext]_vars

SM2Init == SM2Start /\ IRTIdle /\ PutIdle /\ SelIdle /\ ProbeIdle /\ MonitorIdle
SM2Next == Review \/ Tick
SpecSM2 == SM2Init /\ [][SM2Next]_vars

PutInit == PutStart /\ IRTIdle /\ SM2Idle /\ SelIdle /\ ProbeIdle /\ MonitorIdle
PutNext ==
    \E r \in Requests :
        \/ Receive(r)
        \/ FindQuestion(r)
        \/ FindUser(r)
        \/ UpdateUser(r)
        \/ UpdateQuestion(r)
        \/ UpdateSession(r)
        \/ CreateResponse(r)
        \/ RewardUser(r)
        \/ NextQuestion(r)
SpecPut == PutInit /\ [][PutNext]_vars

SelectInit == SelectStart /\ IRTIdle /\ SM2Idle /\ PutIdle /\ ProbeIdle /\ MonitorIdle
SelectNext == SelectQuestion
SpecSelect == SelectInit /\ [][SelectNext]_vars

ProbeInit == ProbeStart /\ IRTIdle /\ SM2Idle /\ PutIdle /\ SelIdle /\ MonitorIdle
ProbeNext == Evaluate \/ Practice
SpecProbe == ProbeInit /\ [][ProbeNext]_vars

PatchInit == PatchStart /\ IRTIdle /\ SM2Idle /\ SelIdle /\ ProbeIdle /\ MonitorIdle
PatchNext ==
    \E r \in Requests :
        \/ PatchReceive(r)
        \/ PatchFindSession(r)
        \/ PatchUpdateSession(r)
        \/ PatchUpdateUser(r)
        \/ PatchFindUser(r)
        \/ PatchUpdateStreak(r)
SpecPatch == PatchInit /\ [][PatchNext]_vars

MonitorInit == MonitorStart /\ IRTIdle /\ SM2Idle /\ PutIdle /\ SelIdle /\ ProbeIdle
MonitorNext == Start \/ Stop \/ CheckBegin \/ CheckResume \/ AppSwitch \/ TimePasses
SpecMonitor == MonitorInit /\ [][MonitorNext]_vars

(***************************************************************************)
(* Properties of the stopping rule and of the ability update (SpecIRT)     *)
(***************************************************************************)
AnsweredCount == Len(administered)

\* C1: shouldStopCAT called with currentCount below 5 and below maxQuestions
\* returns stop = false with the reason "minimum not reached"; no precision
\* stop is returned before 5 questions have been answered.
C1_MinimumFloor ==
    (AnsweredCount < MIN_QUESTIONS /\ AnsweredCount < maxQuestions)
        => /\ verdict.stop = FALSE
           /\ verdict.reason = "Minimum questions not reached"

\* C3: the thetaAfter returned by updateTheta lies in [-3, 3] for every input
\* theta, also one outside [-3, 3].
C3_ThetaAfterInRange ==
    lastUpdate.called
        => /\ lastUpdate.result.thetaAfter >= THETA_MIN
           /\ lastUpdate.result.thetaAfter <= THETA_MAX

Informative == lastUpdate.called /\ lastUpdate.result.information >= InfoThreshold

NeverAgainstTheAnswer ==
    /\ lastUpdate.isCorrect => lastUpdate.result.thetaAfter >= lastUpdate.result.thetaBefore
    /\ ~lastUpdate.isCorrect => lastUpdate.result.thetaAfter <= lastUpdate.result.thetaBefore

\* C4 as claimed: with information at or above 0.001, a correct answer never
\* lowers theta and an incorrect one never raises it, for every input theta.
C4_Monotone == Informative => NeverAgainstTheAnswer

\* C4 as amended: the same for every input theta inside [-3, 3].
C4_MonotoneInRange ==
    (/\ Informative
     /\ lastUpdate.result.thetaBefore >= THETA_MIN
     /\ lastUpdate.result.thetaBefore <= THETA_MAX) => NeverAgainstTheAnswer

\* A correct answer on an informative item has raised an in-range theta.
C4_Witness ==
    /\ Informative
    /\ lastUpdate.isCorrect
    /\ lastUpdate.result.thetaBefore >= THETA_MIN
    /\ lastUpdate.result.thetaBefore < THETA_MAX
    /\ lastUpdate.result.thetaAfter > lastUpdate.result.thetaBefore

\* C13: a session that consults shouldStopCAT after each answer ends: with
\* currentCount >= maxQuestions the result is stop = true with the
\* max-reached reason, so no session administers more than maxQuestions items.
C13_StopsAtMaximum ==
    /\ AnsweredCount <= maxQuestions
    /\ AnsweredCount >= maxQuestions
          => /\ verdict.stop = TRUE
             /\ verdict.reason = "Maximum questions reached"

\* A session has run to the longest limit without a precision stop.
C13_Witness ==
    /\ maxQuestions = MaxSession
    /\ AnsweredCount = maxQuestions
    /\ verdict.stop = TRUE
    /\ verdict.se >= targetSE

\* C19: with information below 0.001 updateTheta returns thetaAfter equal to
\* the theta it was given and thetaChange 0, for a correct and for an
\* incorrect answer.
C19_LowInformationUnchanged ==
    (lastUpdate.called /\ lastUpdate.result.information < InfoThreshold)
        => /\ lastUpdate.result.thetaAfter = lastUpdate.theta
           /\ lastUpdate.result.thetaBefore = lastUpdate.theta
           /\ lastUpdate.result.thetaChange = 0

\* An incorrect answer on an item that tells nothing at the learner's theta.
C19_Witness ==
    /\ lastUpdate.called
    /\ lastUpdate.result.information < InfoThreshold
    /\ ~lastUpdate.isCorrect
    /\ lastUpdate.result.thetaAfter = lastUpdate.theta
    /\ estimate = lastUpdate.theta

(***************************************************************************)
(* Properties of the SM-2 scheduler and of the review queries (SpecSM2)    *)
(***************************************************************************)
ValidCard(card) ==
    /\ card.interval >= 1
    /\ card.easeFactor >= EASE_FACTOR_MIN
    /\ card.repetitions >= 0

\* C5: the ease factor returned by calculateNextReview is never below 1.3,
\* whatever the input card and the ratings, a run of quality-0 answers included.
C5_EaseFloor ==
    lastReview.called
        => /\ lastReview.result.easeFactor >= EASE_FACTOR_MIN
           /\ \A i \in DOMAIN items : items[i].easeFactor >= EASE_FACTOR_MIN

\* A second quality-0 answer in a row on a card already at the floor.
C5_Witness ==
    /\ lastReview.called
    /\ lastReview.quality = 0
    /\ lastReview.before.repetitions = 0
    /\ lastReview.before.easeFactor = EASE_FACTOR_MIN
    /\ lastReview.result.easeFactor = EASE_FACTOR_MIN
    /\ reviews >= 2

\* C6: a quality below 3 returns repetitions 0 and interval 1, whatever the
\* card's repetitions, interval and ease factor were.
C6_FailedRecallResets ==
    (lastReview.called /\ lastReview.quality < 3)
        => /\ lastReview.result.repetitions = 0
           /\ lastReview.result.interval = 1

\* Quality 2 on a card with repetitions 5 and a 6-day interval.
C6_Witness ==
    /\ lastReview.called
    /\ lastReview.quality = 2
    /\ lastReview.before.repetitions = 5
    /\ lastReview.before.interval > 1
    /\ lastReview.result.repetitions = 0
    /\ lastReview.result.interval = 1

\* C7: for a card within the data-model constraints and a quality in 0..5 the
\* returned interval is a whole number of days >= 1, and the returned card is
\* within the constraints again.
C7_IntervalPositive ==
    (/\ lastReview.called
     /\ ValidCard(lastReview.before)
     /\ lastReview.quality \in QUALITY_MIN..QUALITY_MAX)
        => /\ lastReview.result.interval \in Nat
           /\ lastReview.result.interval >= 1
           /\ ValidCard(lastReview.result)

\* A failed recall has returned a valid card with a longer interval to 1 day.
C7_Witness ==
    /\ lastReview.called
    /\ ValidCard(lastReview.before)
    /\ lastReview.quality \in QUALITY_MIN..2
    /\ lastReview.before.interval > 1
    /\ lastReview.result.interval = 1

InList(item, list) == \E k \in DOMAIN list : list[k].id = item.id

\* The item was scheduled by a review for the third day after that review.
ScheduledThreeDaysOut(item) ==
    /\ item.lastReviewDate >= 0
    /\ item.nextReviewDate = AddDays(item.lastReviewDate, 3)

\* C9: a card scheduled for today + 3 is absent from the due query on every
\* day before day 3 and present on day 3 at any time of that day.
C9_DueOnDayThree ==
    \A i \in DOMAIN items :
        ScheduledThreeDaysOut(items[i]) =>
            /\ DayOf(now) < DayOf(items[i].lastReviewDate) + 3
                  => ~InList(items[i], getDueReviews(items, now))
            /\ DayOf(now) = DayOf(items[i].lastReviewDate) + 3
                  => InList(items[i], getDueReviews(items, now))

\* Day 3 has come, at an earlier time of day than the card's due time.
C9_Witness ==
    \E i \in DOMAIN items :
        /\ ScheduledThreeDaysOut(items[i])
        /\ DayOf(now) = DayOf(items[i].lastReviewDate) + 3
        /\ now < items[i].nextReviewDate
        /\ InList(items[i], getDueReviews(items, now))

\* C10 as claimed: a card is overdue exactly when now is strictly later than
\* its nextReviewDate, also when it fell due earlier the same day.
C10_OverdueStrictlyLater ==
    \A i \in DOMAIN items :
        InList(items[i], getOverdueReviews(items, now)) <=> items[i].nextReviewDate < now

\* C10 as amended: a card is overdue exactly when its nextReviewDate falls on
\* a calendar day before the day of now.
C10_OverdueByDay ==
    \A i \in DOMAIN items :
        InList(items[i], getOverdueReviews(items, now))
            <=> DayOf(items[i].nextReviewDate) < DayOf(now)

\* A reviewed card, due at a time of day after midnight, is overdue on a later
\* day.
C10_Witness ==
    \E i \in DOMAIN items :
        /\ items[i].lastReviewDate >= 0
        /\ items[i].nextReviewDate % TicksPerDay > 0
        /\ DayOf(items[i].nextReviewDate) < DayOf(now)
        /\ InList(items[i], getOverdueReviews(items, now))

\* The change of the ease factor for each rating, in 1/Cent, as claimed.
EaseChange(q) ==
    CASE q = 5 -> 10
      [] q = 4 -> 0
      [] q = 3 -> 0 - 14
      [] q = 2 -> 0 - 32
      [] q = 1 -> 0 - 54
      [] q = 0 -> 0 - 80

C20_QualityClamped ==
    lastReview.called
        => /\ lastReview.quality > QUALITY_MAX
                => /\ lastReview.result
                        = calculateNextReview(lastReview.before, QUALITY_MAX, lastReview.at)
                   /\ lastReview.result.quality = QUALITY_MAX
                   /\ lastReview.result.repetitions = lastReview.before.repetitions + 1
           /\ lastReview.quality < QUALITY_MIN
                => /\ lastReview.result
                        = calculateNextReview(lastReview.before, QUALITY_MIN, lastReview.at)
                   /\ lastReview.result.quality = QUALITY_MIN
                   /\ lastReview.result.repetitions = 0

\* A rating of 6 was taken as 5, on a card that an earlier review had reset.
C20_Witness ==
    /\ lastReview.called
    /\ lastReview.quality = QUALITY_MAX + 1
    /\ lastReview.result.quality = QUALITY_MAX
    /\ lastReview.before.repetitions = 0
    /\ lastReview.before.easeFactor < EASE_FACTOR_DEFAULT
    /\ reviews >= 2

\* The run began with a new card (ease 2.5, interval 1, repetitions 0).
FromNewCard == startCard = NewCard

\* C21: on a run from a new card, a successful review (quality >= 3) that
\* brings repetitions to 3 or more returns an interval strictly greater than
\* the card's interval before.
C21_IntervalGrows ==
    (/\ FromNewCard
     /\ lastReview.called
     /\ lastReview.quality >= 3
     /\ lastReview.result.repetitions >= 3)
        => lastReview.result.interval > lastReview.before.interval

\* The third success in a row of a card whose ease factor earlier failures
\* had brought to the floor: 3 days become round(3 x 1.3) = 4.
C21_Witness ==
    /\ FromNewCard
    /\ lastReview.called
    /\ lastReview.quality >= 3
    /\ lastReview.result.repetitions = 3
    /\ lastReview.before.easeFactor = EASE_FACTOR_MIN
    /\ lastReview.before.interval = INTERVALS_SECOND
    /\ lastReview.result.interval = 4

C26_NotDueOnReviewDay ==
    (FromNewCard /\ lastReview.called)
        => /\ lastReview.result.nextReviewDate >= AddDays(lastReview.at, 1)
           /\ \A i \in DOMAIN items :
                (items[i].id = lastReview.id /\ DayOf(now) = DayOf(lastReview.at))
                    => ~InList(items[i], getDueReviews(items, now))

\* A card was due, was reviewed (a failed recall), and the day of the review
\* has gone on to its last tick.
C26_Witness ==
    /\ FromNewCard
    /\ lastReview.called
    /\ lastReview.quality < 3
    /\ DayOf(now) = DayOf(lastReview.at)
    /\ now > lastReview.at
    /\ now = EndOfDay(now)
    /\ getDueReviews(items, now) = <<>>

\* C22: the urgency is max(0, 10 x daysOverdue + 5 x (2.5 - easeFactor)
\* + 5 x max(0, 3 - repetitions)), the overdue term being 0 for a card not a
\* whole day past its nextReviewDate, and is never negative.  In 1/Cent.
C22_UrgencyFormula ==
    \A i \in DOMAIN items :
        LET elapsed == now - items[i].nextReviewDate
            wholeDays == IF elapsed >= TicksPerDay THEN elapsed \div TicksPerDay ELSE 0
            expected == 10 * Cent * wholeDays
                          + 5 * (EASE_FACTOR_DEFAULT - items[i].easeFactor)
                          + 5 * Cent * Max(0, 3 - items[i].repetitions)
        IN  /\ calculateReviewUrgency(items[i], now) = Max(0, expected)
            /\ calculateReviewUrgency(items[i], now) >= 0

\* A learned card whose ease factor is above 2.5 and that is not overdue: the
\* sum is negative and the urgency 0.
C22_Witness ==
    \E i \in DOMAIN items :
        /\ items[i].easeFactor > EASE_FACTOR_DEFAULT
        /\ items[i].repetitions >= 3
        /\ now < items[i].nextReviewDate
        /\ calculateReviewUrgency(items[i], now) = 0

\* C27: the due and overdue counts of calculateReviewStats are the sizes of
\* getDueReviews and getOverdueReviews at the same instant.
C27_StatsAgreeWithQueries ==
    /\ calculateReviewStats(items, now).due = Len(getDueReviews(items, now))
    /\ calculateReviewStats(items, now).overdue = Len(getOverdueReviews(items, now))

\* C29: every item getOverdueReviews returns, getDueReviews returns as well.
C29_OverdueSubsetOfDue ==
    \A i \in DOMAIN items :
        InList(items[i], getOverdueReviews(items, now))
            => InList(items[i], getDueReviews(items, now))

\* A reviewed card is overdue, and due.
C29_Witness ==
    \E i \in DOMAIN items :
        /\ items[i].lastReviewDate >= 0
        /\ InList(items[i], getOverdueReviews(items, now))
        /\ InList(items[i], getDueReviews(items, now))

(***************************************************************************)
(* Properties of the submit-answer handler (SpecPut)                       *)
(***************************************************************************)
Answered(r) == reqs[r].pc = "done" /\ reqs[r].status = 200

\* The theta stored when request first is processed alone and request second
\* after it, the learner's theta being 0 before both.
ThetaAfterBoth(first, second) ==
    LET Step(th, r) ==
            LET question == QuestionBank[reqs[r].questionId]
            IN  updateTheta(th, Params(question.difficulty, question.discrimination,
                                       GUESSING_DEFAULT), reqs[r].isCorrect).thetaAfter
    IN  Step(Step(NewUser.mathsTheta, first), second)

\* C2: two answers of one learner to one subject, processed concurrently, lose
\* no theta update: the stored theta is that of the two updateTheta steps
\* applied one after the other, in one of the two orders.
C2_NoLostUpdate ==
    (/\ Answered("r1") /\ Answered("r2")
     /\ reqs["r1"].body.userId = reqs["r2"].body.userId
     /\ reqs["r1"].thetaField = reqs["r2"].thetaField)
        => users[reqs["r1"].body.userId][reqs["r1"].thetaField]
              \in {ThetaAfterBoth("r1", "r2"), ThetaAfterBoth("r2", "r1")}


ThetaFields == {"mathsTheta", "physicsTheta", "chemistryTheta", "englishTheta"}

\* The request has made its db.user.update of the theta.
PastUpdate(r) == "irtResult" \in DOMAIN reqs[r] /\ reqs[r].pc # "updateUser"

\* The requests that have written theta field f of learner u.
Writers(u, f) ==
    {r \in Requests : /\ PastUpdate(r)
                      /\ reqs[r].body.userId = u
                      /\ ThetaFieldOf(QuestionBank[reqs[r].questionId].subject) = f}

Unanswered == {i \in DOMAIN bank : bank[i].id \notin lastSelect.answered}

\* C11: the selection never returns an answered item, returns a member of the
\* candidate list when it returns an item, and returns null exactly when no
\* unanswered candidate exists.
C11_SelectsUnanswered ==
    lastSelect.called
        => /\ lastSelect.result # null
                => /\ lastSelect.result.id \notin lastSelect.answered
                   /\ \E i \in DOMAIN bank : bank[i] = lastSelect.result
           /\ lastSelect.result = null <=> Unanswered = {}

\* An item was returned although an earlier candidate of the list was answered.
C11_Witness ==
    /\ lastSelect.called
    /\ lastSelect.result # null
    /\ \E i \in DOMAIN bank :
         /\ bank[i].id \in lastSelect.answered
         /\ \E j \in Unanswered : j > i /\ bank[j] = lastSelect.result

\* The candidate's Fisher information at the learner's theta.
InformationOf(i) ==
    fisherInformation(ability,
        Params(bank[i].difficulty, bank[i].discrimination, bank[i].guessing))

\* The random factor drawn for candidate i: the draws follow the order of the
\* unanswered candidates.
JitterOf(i) == lastSelect.randomFactors[Cardinality({j \in Unanswered : j <= i})]

\* C12: the selection returns the unanswered candidate whose Fisher information
\* at theta times its own jitter is highest; a candidate whose information
\* exceeds every other's by more than 1.05/0.95 is returned for every draw.
C12_HighestJitteredInformation ==
    (lastSelect.called /\ lastSelect.result # null)
        => /\ \E r \in Unanswered :
                /\ bank[r] = lastSelect.result
                /\ \A i \in Unanswered :
                     Adjusted(InformationOf(r), JitterOf(r))
                        >= Adjusted(InformationOf(i), JitterOf(i))
           /\ \A d \in Unanswered :
                (\A e \in Unanswered \ {d} :
                    Adjusted(InformationOf(d), 95) > Adjusted(InformationOf(e), 105))
                    => bank[d] = lastSelect.result

(***************************************************************************)
(* Properties of the 3PL functions (SpecProbe)                             *)
(***************************************************************************)
Distance(x, y) == IF x >= y THEN x - y ELSE y - x

\* C15: for fixed a and c the information over theta in [-3, 3] is largest at
\* a theta close to the difficulty b: some theta within 0.5 of b has at least
\* the information of any theta 2 or more away from b.
C15_PeakNearDifficulty ==
    Distance(probe.evaluation.theta, probe.params.difficulty) >= 2 * Unit
        => \E theta \in ThetaGrid :
              /\ Distance(theta, probe.params.difficulty) <= Unit \div 2
              /\ fisherInformation(theta, probe.params) >= probe.evaluation.information

\* C16: correct answers one after the other on an item of difficulty b, from
\* a theta at or above b, give theta increments none of which is larger than
\* the one before.
C16_DiminishingIncrements ==
    (probe.evaluation.theta >= probe.params.difficulty)
        => \A k \in 2..Len(probe.increments) :
              probe.increments[k] <= probe.increments[k - 1]

\* C17: for fixed item parameters and theta1 < theta2 in [-3, 3],
\* probabilityCorrect(theta1) < probabilityCorrect(theta2).
C17_StrictlyIncreasing ==
    probe.previous.theta < probe.evaluation.theta
        => probe.previous.probability < probe.evaluation.probability

\* The two thetas are neighbours on the grid, both well above the difficulty,
\* where the curve is flattest.
C17_Witness ==
    /\ probe.evaluation.theta = THETA_MAX
    /\ probe.previous.theta = THETA_MAX - Unit \div 4
    /\ probe.params.difficulty <= 0 - Unit
    /\ probe.previous.probability < probe.evaluation.probability

\* C25: a request that ended with an error response changed no persistent
\* state: when every request made so far was answered with an error, the
\* learners, the questions' statistics, the sessions' counters and the
\* stored responses are as they were before.
Failed(r) == reqs[r].pc = "done" /\ reqs[r].status >= 400
C25_ErrorLeavesNoChange ==
    ((\E r \in Requests : Failed(r))
        /\ (\A r \in Requests : Failed(r) \/ reqs[r].pc = "idle"))
    => /\ users = [u \in UserIds |-> NewUser]
       /\ questions = [q \in QuestionIds |-> [timesAsked |-> 0, timesCorrect |-> 0]]
       /\ sessions = [x \in SessionIds |->
                         [questionsAttempted |-> 0, questionsCorrect |-> 0]]
       /\ responses = <<>>

\* The bank with guessing values g[i] in place of the items' own.
WithGuessing(g) == [i \in DOMAIN bank |-> [bank[i] EXCEPT !.guessing = g[i]]]

Totals(user) ==
    <<user.totalSessions, user.totalStudyMinutes, user.totalXP, user.currentStreak,
      user.longestStreak>>

\* The request has read its session, and that session had been ended before.
EndsAgain(r) == "session" \in DOMAIN reqs[r] /\ reqs[r].session.ended

\* C28: ending a session that has been ended before changes none of the
\* learner's totals (totalSessions, totalStudyMinutes, totalXP, currentStreak,
\* longestStreak): no step of such a request changes them.
C28_SecondEndChangesNothing ==
    [][\A r \in Requests :
          (reqs'[r] # reqs[r] /\ EndsAgain(r))
          => \A u \in DOMAIN users : Totals(users'[u]) = Totals(users[u])]_vars

=============================================================================
